---- MODULE Spec2Model ----
(***************************************************************************)
(* Learning-path generation engine: the LearningPath aggregate (nodes,     *)
(* dependency relations, Kahn's sort with skill regrouping), the sorter    *)
(* service with its recovery pass, the graph builder, the milestone        *)
(* grouper, the override applier and the path generator that chains them.  *)
(*                                                                         *)
(* A node is identified with the repository it wraps: a path holds at most *)
(* one node per repository (add_repository), and a removed node leaves no  *)
(* reference behind (remove_repository refuses while a node lists it as a  *)
(* prerequisite and drops its relations).  Complexity scores are in tenths *)
(* (35 is 3.5).                                                            *)
(***************************************************************************)
EXTENDS Integers, Sequences, FiniteSets, TLC

VARIABLES
    repo,        \* the repositories: id -> attributes (read-only)
    path,        \* the LearningPath aggregate
    last,        \* how the last call of the sorter ended, if the path is as it left it
    pc,          \* position of PathGeneratorService.generate
    request,     \* the GenerateLearningPathRequest and the repository list
    gen,         \* the locals and the result of generate
    record       \* one ProgressRecord

vars == <<repo, path, last, pc, request, gen, record>>

-----------------------------------------------------------------------------
(* Bounds of the model *)

NRepos == 3
MaxDeps == 3
MaxMinutes == 60

\* The repository identifiers: those of the generation requests and one
\* more
RepoIds == 1..(NRepos + 1)

-----------------------------------------------------------------------------
(* Enumerations *)

DependencyType == {"prerequisite", "recommended", "related", "alternative"}
DependencyStrength == {"weak", "moderate", "strong", "critical"}
CreatedBy == {"system", "user"}
SkillLevels == {"basic", "intermediate", "advanced", "expert"}
SkillTypes == {"frontend", "backend", "data_science", "infrastructure",
               "mobile", "devops", "machine_learning", "security"}
NoSkill == [type |-> "none", level |-> "none"]
TopicNames == {"html", "react"}

\* Topic.parent_topics of the topics the model uses: react builds on html.
ParentTopics(t) == IF t = "react" THEN {"html"} ELSE {}

\* SkillType.get_compatible_types
CompatibleTypes(t) ==
    CASE t = "frontend" -> {"backend", "mobile"}
      [] t = "backend" -> {"frontend", "data_science", "devops", "security"}
      [] t = "data_science" -> {"backend", "machine_learning"}
      [] t = "infrastructure" -> {"devops", "backend", "security"}
      [] t = "mobile" -> {"frontend", "backend"}
      [] t = "devops" -> {"infrastructure", "backend", "security"}
      [] t = "machine_learning" -> {"data_science", "backend"}
      [] t = "security" -> {"backend", "infrastructure", "devops"}
      [] OTHER -> {}

\* _SKILL_LEVEL_ORDER of the graph builder
SkillLevelOrder(l) ==
    CASE l = "basic" -> 0 [] l = "intermediate" -> 1
      [] l = "advanced" -> 2 [] l = "expert" -> 3 [] OTHER -> 0

-----------------------------------------------------------------------------
(* Sequences *)

Range(s) == {s[i] : i \in 1..Len(s)}

IndexOf(s, x) == CHOOSE i \in 1..Len(s) : s[i] = x /\ \A j \in 1..(i-1) : s[j] # x

\* All orderings of a set, each a sequence without repetition.
Orderings(S) == {s \in [1..Cardinality(S) -> S] : \A i, j \in 1..Cardinality(S) : s[i] = s[j] => i = j}

\* The iteration order of a Python set: the elements of S in the order the
\* hash table h (an ordering of all ids) yields them.
SetIter(S, h) == SelectSeq(h, LAMBDA x : x \in S)

\* list.sort(key=...) is stable: an element goes after every element whose
\* key is not greater.
RECURSIVE StableSort(_, _)
StableSort(s, key) ==
    IF s = <<>> THEN <<>>
    ELSE LET front == StableSort(SubSeq(s, 1, Len(s) - 1), key)
             x == s[Len(s)]
             k == Cardinality({i \in 1..Len(front) : key[front[i]] <= key[x]})
         IN SubSeq(front, 1, k) \o <<x>> \o SubSeq(front, k + 1, Len(front))

RECURSIVE SumOver(_, _)
SumOver(S, f) ==
    IF S = {} THEN 0
    ELSE LET x == CHOOSE y \in S : TRUE IN f[x] + SumOver(S \ {x}, f)

-----------------------------------------------------------------------------
(* Repository *)

\* Repository.get_recommended_learning_order: skill level weight, plus the
\* integer part of the complexity, plus the number of parent topics.
RecommendedLearningOrder(p) ==
    (CASE p.skill.level = "basic" -> 1
       [] p.skill.level = "intermediate" -> 3
       [] p.skill.level = "advanced" -> 5
       [] p.skill.level = "expert" -> 7
       [] OTHER -> 0)
    + (p.complexity \div 10)
    + SumOver(p.topics, [t \in TopicNames |-> Cardinality(ParentTopics(t))])

Priority(rp) == [r \in RepoIds |-> RecommendedLearningOrder(rp[r])]

\* Skill.get_learning_difficulty: int(base * multiplier), at most 10
LearningDifficulty(skill) ==
    LET base == CASE skill.level = "basic" -> 2
                  [] skill.level = "intermediate" -> 4
                  [] skill.level = "advanced" -> 7
                  [] OTHER -> 9
        tenths == CASE skill.type = "frontend" -> 10
                    [] skill.type = "backend" -> 12
                    [] skill.type = "data_science" -> 14
                    [] skill.type = "infrastructure" -> 13
                    [] skill.type = "mobile" -> 11
                    [] skill.type = "devops" -> 15
                    [] skill.type = "machine_learning" -> 16
                    [] OTHER -> 14
        d == (base * tenths) \div 10
    IN IF d > 10 THEN 10 ELSE d

\* Repository._recalculate_complexity for a python repository without
\* topics, metadata or dependencies, in tenths
RecalculateComplexity(R) ==
    LET score == 10 + 20
                 + (IF R.skill = NoSkill THEN 0 ELSE 3 * LearningDifficulty(R.skill))
                 + SumOver(R.secondary_skills,
                           [k \in R.secondary_skills |-> LearningDifficulty(k)])
    IN [R EXCEPT !.complexity = IF score > 100 THEN 100 ELSE score]

\* The skill types set_primary_skill accepts for a python repository
PythonSkillTypes == {"backend", "data_science", "machine_learning"}

\* Repository.set_primary_skill
SetPrimarySkill(R, skill) ==
    IF skill.type \notin PythonSkillTypes
    THEN [repository |-> R, err |-> "BusinessRuleViolation"]
    ELSE [repository |-> RecalculateComplexity([R EXCEPT !.skill = skill]),
          err |-> "none"]

\* Repository.add_secondary_skill
AddSecondarySkill(R, skill) ==
    IF R.skill # NoSkill /\ skill = R.skill
    THEN [repository |-> R, err |-> "BusinessRuleViolation"]
    ELSE [repository |-> RecalculateComplexity(
                             [R EXCEPT !.secondary_skills = @ \cup {skill}]),
          err |-> "none"]

-----------------------------------------------------------------------------
(* DependencyRelation *)

Relation(s, t, ty, st, by) ==
    [source |-> s, target |-> t, type |-> ty, strength |-> st, created_by |-> by]

\* DependencyRelation.is_blocking_dependency
IsBlocking(d) == d.type = "prerequisite" /\ d.strength \in {"strong", "critical"}

\* DependencyRelation.__eq__ / __hash__: same source and target.
SameRelation(d, e) == d.source = e.source /\ d.target = e.target

\* set.add of a relation: a set already holding an equal element keeps it.
SetAddRelation(deps, d) ==
    IF \E e \in deps : SameRelation(d, e) THEN deps ELSE deps \cup {d}

-----------------------------------------------------------------------------
(* LearningPath *)

EmptyPath ==
    [nodes |-> <<>>,
     prereq |-> [r \in RepoIds |-> {}],
     deps |-> {},
     status |-> [r \in RepoIds |-> "none"],
     progress |-> [r \in RepoIds |-> 0],
     total_repositories |-> 0,
     total_estimated_hours |-> 0,
     allow_parallel_learning |-> FALSE,
     max_parallel_nodes |-> 3]

RecalculateCountOnly(P, rp) == [P EXCEPT !.total_repositories = Len(P.nodes)]

\* LearningPath._recalculate_metrics
RecalculateMetrics(P, rp) ==
    [P EXCEPT !.total_repositories = Len(P.nodes),
              !.total_estimated_hours =
                  SumOver(Range(P.nodes), [r \in RepoIds |-> rp[r].hours])]

\* LearningNode._update_status_based_on_prerequisites
UpdateStatusBasedOnPrerequisites(st, prereqs) ==
    IF st \in {"completed", "in_progress", "skipped"} THEN st
    ELSE IF prereqs # {} THEN "blocked" ELSE "available"

AddRepositoryUnchecked(P, rp, r, prerequisites) ==
    [path |-> RecalculateMetrics([P EXCEPT !.nodes = Append(P.nodes, r)], rp),
     err |-> "none"]

\* LearningPath.add_repository(repository, prerequisites)
AddRepository(P, rp, r, prerequisites) ==
    IF r \in Range(P.nodes)
    THEN [path |-> P, err |-> "BusinessRuleViolation"]
    ELSE IF \E q \in prerequisites : q \notin Range(P.nodes)
    THEN [path |-> P, err |-> "ValidationError"]
    ELSE LET P1 == [P EXCEPT !.nodes = Append(P.nodes, r),
                             !.prereq[r] = prerequisites,
                             !.status[r] = IF prerequisites = {} THEN "not_started"
                                           ELSE "blocked",
                             !.progress[r] = 0]
         IN [path |-> RecalculateMetrics(P1, rp), err |-> "none"]

\* LearningPath.remove_repository(node_id)
RemoveRepository(P, rp, n) ==
    IF n \notin Range(P.nodes)
    THEN [path |-> P, err |-> "none", returned |-> FALSE]
    ELSE IF \E m \in Range(P.nodes) : n \in P.prereq[m]
    THEN [path |-> P, err |-> "BusinessRuleViolation", returned |-> FALSE]
    ELSE LET P1 == [P EXCEPT !.nodes = SelectSeq(P.nodes, LAMBDA m : m # n),
                             !.prereq[n] = {},
                             !.status[n] = "none",
                             !.progress[n] = 0,
                             !.deps = {d \in P.deps : d.source # n /\ d.target # n}]
         IN [path |-> RecalculateMetrics(P1, rp), err |-> "none", returned |-> TRUE]

\* The adjacency lists of _topological_sort: for each node in path order and
\* each of its prerequisites in set iteration order, the node is appended to
\* the prerequisite's list.
RECURSIVE AdjacencyFrom(_, _, _, _)
AdjacencyFrom(P, h, i, adj) ==
    IF i > Len(P.nodes) THEN adj
    ELSE LET n == P.nodes[i]
             todo == SetIter(P.prereq[n], h)
         IN AdjacencyFrom(P, h, i + 1,
                [q \in RepoIds |-> IF q \in Range(todo) THEN Append(adj[q], n)
                                   ELSE adj[q]])

Adjacency(P, h) == AdjacencyFrom(P, h, 1, [q \in RepoIds |-> <<>>])

\* for neighbor_id in adjacency[current_id]: decrement, append when zero.
RECURSIVE Release(_, _, _)
Release(neighbors, indeg, queue) ==
    IF neighbors = <<>> THEN [indeg |-> indeg, queue |-> queue]
    ELSE LET m == Head(neighbors)
             d == indeg[m] - 1
         IN Release(Tail(neighbors), [indeg EXCEPT ![m] = d],
                    IF d = 0 THEN Append(queue, m) ELSE queue)

\* The while loop of Kahn's algorithm: sort the queue by learning priority
\* (stable), pop its head, release its neighbours.
RECURSIVE KahnLoop(_, _, _, _, _)
KahnLoop(queue, indeg, adj, prio, out) ==
    IF queue = <<>> THEN out
    ELSE LET q == StableSort(queue, prio)
             cur == Head(q)
             rel == Release(adj[cur], indeg, Tail(q))
         IN KahnLoop(rel.queue, rel.indeg, adj, prio, Append(out, cur))

\* The ready queue collected from a set, so in the order of the ids' hashes.
InitialQueueFromSet(P, h) ==
    SetIter({n \in Range(P.nodes) : P.prereq[n] = {}}, h)

\* The ready queue at the start: the nodes of in-degree zero, in path order.
InitialQueue(P, h) == SelectSeq(P.nodes, LAMBDA n : P.prereq[n] = {})

\* sorted_ids of _topological_sort
KahnOrder(P, rp, h) ==
    KahnLoop(InitialQueue(P, h),
             [n \in RepoIds |-> Cardinality(P.prereq[n])],
             Adjacency(P, h), Priority(rp), <<>>)

\* LearningPath._find_cycle: depth-first search along prerequisite_nodes.
\* Dfs is the inner dfs(node_id, path); DfsEach is its for loop.  The result
\* carries the shared visited and rec_stack sets.
RECURSIVE Dfs(_, _, _, _, _, _)
RECURSIVE DfsEach(_, _, _, _, _, _, _)
Dfs(P, h, n, pth, visited, rec) ==
    DfsEach(P, h, n, Append(pth, n), SetIter(P.prereq[n], h),
            visited \cup {n}, rec \cup {n})

\* The cycle reported as the whole search path, not cut at cycle_start.
CycleFromWholePath(pth, q) == pth \o <<q>>

\* path[cycle_start:] + [prereq_id]
CycleFrom(pth, q) == SubSeq(pth, IndexOf(pth, q), Len(pth)) \o <<q>>

DfsEach(P, h, n, pth, todo, visited, rec) ==
    IF todo = <<>>
    THEN [cycle |-> <<>>, visited |-> visited, rec |-> rec \ {n}]
    ELSE LET q == Head(todo) IN
         IF q \notin visited
         THEN LET r == Dfs(P, h, q, pth, visited, rec) IN
              IF r.cycle # <<>> THEN r
              ELSE DfsEach(P, h, n, pth, Tail(todo), r.visited, r.rec)
         ELSE IF q \in rec
         THEN [cycle |-> CycleFrom(pth, q), visited |-> visited, rec |-> rec]
         ELSE DfsEach(P, h, n, pth, Tail(todo), visited, rec)

RECURSIVE FindCycleFrom(_, _, _, _)
FindCycleFrom(P, h, i, visited) ==
    IF i > Len(P.nodes) THEN <<>>
    ELSE IF P.nodes[i] \in visited THEN FindCycleFrom(P, h, i + 1, visited)
    ELSE LET r == Dfs(P, h, P.nodes[i], <<>>, visited, {}) IN
         IF r.cycle # <<>> THEN r.cycle
         ELSE FindCycleFrom(P, h, i + 1, r.visited)

FindCycle(P, h) == FindCycleFrom(P, h, 1, {})

\* LearningPath._topological_sort: the order, or CircularDependencyError
\* carrying _find_cycle().
TopologicalSort(P, rp, h) ==
    LET order == KahnOrder(P, rp, h) IN
    IF Len(order) # Len(P.nodes)
    THEN [err |-> "CircularDependencyError", cycle |-> FindCycle(P, h), order |-> order]
    ELSE [err |-> "none", cycle |-> <<>>, order |-> order]

\* LearningPath.add_dependency: the relation is added to the set and the
\* prerequisite to the target node before the cycle check runs; the check
\* raises and undoes nothing.
AddDependency(P, rp, h, s, t, ty, st, by) ==
    IF s \notin Range(P.nodes) \/ t \notin Range(P.nodes)
    THEN [path |-> P, err |-> "ValidationError", cycle |-> <<>>]
    ELSE IF s = t
    THEN [path |-> P, err |-> "BusinessRuleViolation", cycle |-> <<>>]
    ELSE LET d == Relation(s, t, ty, st, by)
             P1 == [P EXCEPT !.deps = SetAddRelation(P.deps, d)]
             P2 == IF IsBlocking(d)
                   THEN [P1 EXCEPT !.prereq[t] = P1.prereq[t] \cup {s},
                                   !.status[t] = UpdateStatusBasedOnPrerequisites(
                                                     P1.status[t], P1.prereq[t] \cup {s})]
                   ELSE P1
             ts == TopologicalSort(P2, rp, h)
         IN [path |-> P2, err |-> ts.err, cycle |-> ts.cycle]

\* str(skill_type) of the flattening key, as its rank among the strings
\* "" (no skill) and "SkillType.<NAME>".
SkillTypeRank(t) ==
    CASE t = "none" -> 0
      [] t = "backend" -> 1
      [] t = "data_science" -> 2
      [] t = "devops" -> 3
      [] t = "frontend" -> 4
      [] t = "infrastructure" -> 5
      [] t = "machine_learning" -> 6
      [] t = "mobile" -> 7
      [] t = "security" -> 8

ApplyComplexityOnly(sorted, rp) ==
    StableSort(sorted, [r \in RepoIds |-> rp[r].complexity])

\* LearningPath._apply_learning_heuristics: group by primary skill type,
\* sort each group by complexity, concatenate the groups by type string.
\* Both sorts are stable, so this is one stable sort by complexity followed
\* by one stable sort by the type's rank.
ApplyLearningHeuristics(sorted, rp) ==
    StableSort(StableSort(sorted, [r \in RepoIds |-> rp[r].complexity]),
               [r \in RepoIds |-> SkillTypeRank(rp[r].skill.type)])

\* LearningPath.optimize_learning_sequence
OptimizeLearningSequence(P, rp, h) ==
    LET ts == TopologicalSort(P, rp, h) IN
    IF ts.err # "none" THEN [path |-> P, err |-> ts.err, cycle |-> ts.cycle]
    ELSE [path |-> [P EXCEPT !.nodes = ApplyLearningHeuristics(ts.order, rp)],
          err |-> "none", cycle |-> <<>>]

-----------------------------------------------------------------------------
(* LearningNode: status and progress *)

\* LearningNode.can_start_learning(completed_node_ids)
CanStartLearning(P, n, completed) ==
    /\ P.status[n] \notin {"completed", "in_progress"}
    /\ P.prereq[n] \subseteq completed

\* LearningNode.start_learning(completed_node_ids)
StartLearning(P, n, completed) ==
    IF ~CanStartLearning(P, n, completed)
    THEN [path |-> P, err |-> "InvalidLearningSequenceError"]
    ELSE IF P.status[n] = "completed"
    THEN [path |-> P, err |-> "BusinessRuleViolation"]
    ELSE [path |-> [P EXCEPT !.status[n] = "in_progress", !.progress[n] = 0],
          err |-> "none"]

\* LearningNode.complete_learning
CompleteLearning(P, n) ==
    IF P.status[n] # "in_progress"
    THEN [path |-> P, err |-> "BusinessRuleViolation"]
    ELSE [path |-> [P EXCEPT !.status[n] = "completed", !.progress[n] = 100],
          err |-> "none"]

\* LearningNode.update_progress(percentage)
UpdateProgress(P, n, percentage) ==
    IF ~(0 <= percentage /\ percentage <= 100)
    THEN [path |-> P, err |-> "ValidationError"]
    ELSE IF P.status[n] # "in_progress"
    THEN [path |-> P, err |-> "BusinessRuleViolation"]
    ELSE LET P1 == [P EXCEPT !.progress[n] = percentage] IN
         IF percentage >= 100 THEN CompleteLearning(P1, n)
         ELSE [path |-> P1, err |-> "none"]

\* LearningNode.skip_learning
SkipLearning(P, n) ==
    IF P.status[n] = "completed"
    THEN [path |-> P, err |-> "BusinessRuleViolation"]
    ELSE [path |-> [P EXCEPT !.status[n] = "skipped", !.progress[n] = 0],
          err |-> "none"]

ResetProgressUnguarded(P, n) ==
    [path |-> [P EXCEPT !.status[n] = "not_started", !.progress[n] = 0],
     err |-> "none"]

\* LearningNode.reset_progress
ResetProgress(P, n) ==
    IF P.status[n] = "in_progress"
    THEN [path |-> P, err |-> "BusinessRuleViolation"]
    ELSE [path |-> [P EXCEPT !.status[n] = "not_started", !.progress[n] = 0],
          err |-> "none"]

\* The parallel learning limit of get_next_available_nodes
ParallelLimitReached(P) ==
    LET in_progress_ids == {n \in Range(P.nodes) : P.status[n] = "in_progress"} IN
    IF ~P.allow_parallel_learning
    THEN in_progress_ids # {}
    ELSE Cardinality(in_progress_ids) >= P.max_parallel_nodes

\* LearningPath.get_next_available_nodes
GetNextAvailableNodes(P, rp) ==
    LET completed_ids == {n \in Range(P.nodes) : P.status[n] = "completed"} IN
    IF ParallelLimitReached(P) THEN <<>>
    ELSE StableSort(SelectSeq(P.nodes, LAMBDA n :
                        /\ P.status[n] = "not_started"
                        /\ CanStartLearning(P, n, completed_ids)),
                    Priority(rp))

-----------------------------------------------------------------------------
(* ProgressRecord: status, progress and the two timestamps *)

\* A record as constructed; a timestamp is "none" or "set"
NewRecord ==
    [status |-> "not_started", progress_percentage |-> 0,
     started_at |-> "none", completed_at |-> "none",
     total_time_spent_minutes |-> 0]

\* ProgressRecord.start_learning
RecordStart(R) ==
    IF R.status # "not_started"
    THEN [record |-> R, err |-> "BusinessRuleViolation"]
    ELSE [record |-> [R EXCEPT !.status = "in_progress", !.started_at = "set"],
          err |-> "none"]

RecordCompleteUnguarded(R) ==
    [record |-> [R EXCEPT !.status = "completed", !.progress_percentage = 100,
                          !.completed_at = "set"],
     err |-> "none"]

\* ProgressRecord.complete_learning
RecordComplete(R) ==
    IF R.status \notin {"in_progress", "paused"}
    THEN [record |-> R, err |-> "BusinessRuleViolation"]
    ELSE [record |-> [R EXCEPT !.status = "completed", !.progress_percentage = 100,
                               !.completed_at = "set"],
          err |-> "none"]

\* ProgressRecord.update_progress(percentage, time_spent_minutes)
RecordUpdateProgress(R, percentage, minutes) ==
    IF R.status \notin {"in_progress", "paused"}
    THEN [record |-> R, err |-> "BusinessRuleViolation"]
    ELSE IF ~(0 <= percentage /\ percentage <= 100)
    THEN [record |-> R, err |-> "ValidationError"]
    ELSE IF percentage < R.progress_percentage
    THEN [record |-> R, err |-> "BusinessRuleViolation"]
    ELSE LET R1 == [R EXCEPT !.progress_percentage = percentage,
                             !.total_time_spent_minutes = @ + minutes,
                             !.status = "in_progress"]
         IN IF percentage >= 100 THEN RecordComplete(R1)
            ELSE [record |-> R1, err |-> "none"]

\* ProgressRecord.pause_learning
RecordPause(R) ==
    IF R.status # "in_progress"
    THEN [record |-> R, err |-> "BusinessRuleViolation"]
    ELSE [record |-> [R EXCEPT !.status = "paused"], err |-> "none"]

\* ProgressRecord.abandon_learning
RecordAbandon(R) ==
    IF R.status = "completed"
    THEN [record |-> R, err |-> "BusinessRuleViolation"]
    ELSE [record |-> [R EXCEPT !.status = "abandoned"], err |-> "none"]

-----------------------------------------------------------------------------
(* TopologicalSorterService *)

\* The removable set of _resolve_cycles
Removable(deps) ==
    {d \in deps : d.strength = "weak" \/ d.type \in {"related", "alternative"}}

\* TopologicalSorterService._resolve_cycles: every removable relation is
\* discarded, and its source is discarded from the prerequisite_nodes of its
\* target.
ResolveCycles(P) ==
    LET rem == Removable(P.deps) IN
    [P EXCEPT !.deps = P.deps \ rem,
              !.prereq = [n \in RepoIds |->
                  P.prereq[n] \ {d.source : d \in {e \in rem :
                      e.target = n /\ e.source \in Range(P.nodes)
                                   /\ n \in Range(P.nodes)}}]]

\* The recovery pass run before the first attempt instead of after its failure.
SorterSortResolvesFirst(P, rp, h) ==
    LET P1 == ResolveCycles(P)
        only == OptimizeLearningSequence(P1, rp, h)
    IN IF only.err = "none"
       THEN [path |-> only.path, err |-> "none", recovered |-> TRUE,
             witness |-> <<>>, affected |-> <<>>]
       ELSE [path |-> P1, err |-> "InvalidLearningSequenceError",
             recovered |-> TRUE, witness |-> only.cycle, affected |-> only.cycle]

\* TopologicalSorterService.sort
SorterSort(P, rp, h) ==
    LET first == OptimizeLearningSequence(P, rp, h) IN
    IF first.err = "none"
    THEN [path |-> first.path, err |-> "none", recovered |-> FALSE,
          witness |-> <<>>, affected |-> <<>>]
    ELSE LET P1 == ResolveCycles(P)
             second == OptimizeLearningSequence(P1, rp, h)
         IN IF second.err = "none"
            THEN [path |-> second.path, err |-> "none", recovered |-> TRUE,
                  witness |-> first.cycle, affected |-> <<>>]
            ELSE [path |-> P1, err |-> "InvalidLearningSequenceError",
                  recovered |-> TRUE, witness |-> first.cycle,
                  affected |-> second.cycle]

-----------------------------------------------------------------------------
(* GraphBuilderService *)

SimpleThreshold == 30
ComplexThreshold == 60

NoDependency == [type |-> "none", strength |-> "none"]

\* GraphBuilderService._infer_dependency(source, target): the first rule that
\* applies, of topic parent, skill-level progression, compatible skill type
\* and complexity gap.
InferDependency(src, tgt) ==
    IF \E t \in tgt.topics : ParentTopics(t) \cap src.topics # {}
    THEN [type |-> "prerequisite", strength |-> "strong"]
    ELSE IF /\ src.skill # NoSkill /\ tgt.skill # NoSkill
            /\ src.skill.type = tgt.skill.type
            /\ SkillLevelOrder(src.skill.level) < SkillLevelOrder(tgt.skill.level)
    THEN [type |-> "prerequisite", strength |-> "moderate"]
    ELSE IF /\ src.skill # NoSkill /\ tgt.skill # NoSkill
            /\ src.skill.type \in CompatibleTypes(tgt.skill.type)
            /\ src.complexity < tgt.complexity
    THEN [type |-> "recommended", strength |-> "weak"]
    ELSE IF src.complexity < SimpleThreshold /\ tgt.complexity > ComplexThreshold
    THEN [type |-> "recommended", strength |-> "weak"]
    ELSE NoDependency

\* GraphBuilderService._detect_dependencies: every pair (i, j), i < j, of the
\* pre-sorted list, in loop order.
RECURSIVE DetectFrom(_, _, _, _)
DetectFrom(repos, rp, i, j) ==
    IF i > Len(repos) THEN <<>>
    ELSE IF j > Len(repos) THEN DetectFrom(repos, rp, i + 1, i + 2)
    ELSE LET dep == InferDependency(rp[repos[i]], rp[repos[j]])
             rest == DetectFrom(repos, rp, i, j + 1)
         IN IF dep = NoDependency THEN rest
            ELSE <<[source |-> repos[i], target |-> repos[j],
                    type |-> dep.type, strength |-> dep.strength]>> \o rest

RECURSIVE DetectAdjacentFrom(_, _, _)
DetectAdjacentFrom(repos, rp, i) ==
    IF i >= Len(repos) THEN <<>>
    ELSE LET dep == InferDependency(rp[repos[i]], rp[repos[i + 1]])
             rest == DetectAdjacentFrom(repos, rp, i + 1)
         IN IF dep = NoDependency THEN rest
            ELSE <<[source |-> repos[i], target |-> repos[i + 1],
                    type |-> dep.type, strength |-> dep.strength]>> \o rest

DetectAdjacentDependencies(repos, rp) == DetectAdjacentFrom(repos, rp, 1)

DetectDependencies(repos, rp) == DetectFrom(repos, rp, 1, 2)

\* filtered.sort(key=get_recommended_learning_order) after the exclusions
Presort(repos, rp, exclude) ==
    StableSort(SelectSeq(repos, LAMBDA r : r \notin exclude), Priority(rp))

\* for repo in filtered: path.add_repository(repo), a failure skips the repo
RECURSIVE AddRepositories(_, _, _)
AddRepositories(P, rp, repos) ==
    IF repos = <<>> THEN P
    ELSE AddRepositories(AddRepository(P, rp, Head(repos), {}).path, rp, Tail(repos))

\* for each detected pair: path.add_dependency(...), a failure is logged only
RECURSIVE AddDependencies(_, _, _, _)
AddDependencies(P, rp, h, pairs) ==
    IF pairs = <<>> THEN P
    ELSE LET d == Head(pairs)
             P1 == IF d.source \in Range(P.nodes) /\ d.target \in Range(P.nodes)
                   THEN AddDependency(P, rp, h, d.source, d.target,
                                      d.type, d.strength, "system").path
                   ELSE P
         IN AddDependencies(P1, rp, h, Tail(pairs))

\* GraphBuilderService.build
Build(rp, h, repos, exclude) ==
    LET filtered == Presort(repos, rp, exclude) IN
    AddDependencies(AddRepositories(EmptyPath, rp, filtered), rp, h,
                    DetectDependencies(filtered, rp))

-----------------------------------------------------------------------------
(* MilestoneGrouperService *)

MilestoneOrder ==
    <<"foundations", "core_skills", "advanced_systems", "specialized_topics">>

\* The phase taken from the complexity, whether a primary skill is set or not.
AssignPhaseByComplexity(p) ==
    IF p.complexity < 30 THEN "foundations"
    ELSE IF p.complexity < 50 THEN "core_skills"
    ELSE IF p.complexity < 70 THEN "advanced_systems"
    ELSE "specialized_topics"

\* MilestoneGrouperService._assign_phase: by skill level, or by complexity
\* when the repository has no primary skill.
AssignPhase(p) ==
    IF p.skill # NoSkill
    THEN CASE p.skill.level = "basic" -> "foundations"
           [] p.skill.level = "intermediate" -> "core_skills"
           [] p.skill.level = "advanced" -> "advanced_systems"
           [] OTHER -> "specialized_topics"
    ELSE IF p.complexity < 30 THEN "foundations"
    ELSE IF p.complexity < 50 THEN "core_skills"
    ELSE IF p.complexity < 70 THEN "advanced_systems"
    ELSE "specialized_topics"

\* MilestoneGrouperService._node_to_item; prerequisites is list(set)
NodeToItem(n, rp, P, h, order_index) ==
    [repository_id |-> n,
     order_index |-> order_index,
     estimated_hours |-> rp[n].hours,
     skill_level |-> IF rp[n].skill # NoSkill THEN rp[n].skill.level ELSE "basic",
     prerequisites |-> SetIter(P.prereq[n], h),
     is_overridden |-> FALSE,
     override_reason |-> ""]

\* The item put at the head of its bucket.
BucketPrepend(buckets, phase, item) ==
    [buckets EXCEPT ![phase] = <<item>> \o @]

\* The bucket overwritten by the item.
BucketReplace(buckets, phase, item) ==
    [buckets EXCEPT ![phase] = <<item>>]

\* buckets[phase].append(item)
BucketAppend(buckets, phase, item) ==
    [buckets EXCEPT ![phase] = Append(@, item)]

\* for order_index, node in enumerate(sorted_nodes)
RECURSIVE FillBuckets(_, _, _, _, _, _)
FillBuckets(sorted, rp, P, h, i, buckets) ==
    IF i > Len(sorted) THEN buckets
    ELSE LET n == sorted[i] IN
         FillBuckets(sorted, rp, P, h, i + 1,
                     BucketAppend(buckets, AssignPhase(rp[n]),
                                  NodeToItem(n, rp, P, h, i - 1)))

RECURSIVE GroupsFrom(_, _, _)
GroupsFrom(buckets, k, keepEmpty) ==
    IF k > Len(MilestoneOrder) THEN <<>>
    ELSE LET phase == MilestoneOrder[k] IN
         (IF buckets[phase] # <<>> \/ keepEmpty
          THEN <<[phase |-> phase, nodes |-> buckets[phase]]>> ELSE <<>>)
         \o GroupsFrom(buckets, k + 1, keepEmpty)

\* Every phase returned, the empty ones too.
OutputGroupsKeepEmpty(buckets) == GroupsFrom(buckets, 1, TRUE)

\* for phase in _MILESTONE_ORDER: if items: result.append(...)
OutputGroups(buckets) == GroupsFrom(buckets, 1, FALSE)

\* MilestoneGrouperService.group
GroupNodes(sorted, rp, P, h) ==
    OutputGroups(FillBuckets(sorted, rp, P, h, 1,
                             [ph \in Range(MilestoneOrder) |-> <<>>]))

-----------------------------------------------------------------------------
(* OverrideManagerService *)

\* target_order -1 and target_milestone "" stand for None
OverrideInstruction(r, ty, order, milestone, reason) ==
    [repository_id |-> r, override_type |-> ty,
     target_order |-> order, target_milestone |-> milestone, reason |-> reason]

\* flat_nodes and repo_node_map: the items of all groups in output order,
\* each with the _forced_milestone attribute apply may set on it ("" unset)
RECURSIVE FlatNodes(_)
FlatNodes(ms) ==
    IF ms = <<>> THEN <<>>
    ELSE [j \in 1..Len(Head(ms).nodes) |->
             [item |-> Head(ms).nodes[j], forced |-> ""]] \o FlatNodes(Tail(ms))

\* repo_node_map.get(repository_id): the position of the entry, 0 for None
MapIndex(entries, r) ==
    IF \E i \in 1..Len(entries) : entries[i].item.repository_id = r
    THEN CHOOSE i \in 1..Len(entries) : entries[i].item.repository_id = r
    ELSE 0

\* OverrideManagerService._parse_milestone, "" for None
ParseMilestone(value) ==
    IF value \in {MilestoneOrder[k] : k \in 1..Len(MilestoneOrder)} THEN value ELSE ""

MovedTo(target) ==
    CASE target = "foundations" -> "Moved to foundations"
      [] target = "core_skills" -> "Moved to core_skills"
      [] target = "advanced_systems" -> "Moved to advanced_systems"
      [] OTHER -> "Moved to specialized_topics"

\* The body of the loop over the overrides.  A reorder replaces the item by
\* a new NodeItem, which has no _forced_milestone; a note changes nothing.
ApplyOne(L, o) ==
    LET i == MapIndex(L.entries, o.repository_id) IN
    IF i = 0 THEN L
    ELSE LET node == L.entries[i].item IN
         CASE o.override_type = "skip" ->
                [L EXCEPT !.skip = @ \cup {o.repository_id}]
           [] o.override_type = "milestone" ->
                LET target == ParseMilestone(o.target_milestone) IN
                IF target = "" THEN L
                ELSE [L EXCEPT !.entries[i] =
                        [item |-> [node EXCEPT
                                     !.is_overridden = TRUE,
                                     !.override_reason =
                                        IF o.reason # "" THEN o.reason
                                        ELSE MovedTo(target)],
                         forced |-> target]]
           [] o.override_type = "reorder" ->
                [L EXCEPT !.entries[i] =
                    [item |-> [node EXCEPT
                                 !.order_index =
                                    IF o.target_order # -1 THEN o.target_order ELSE @,
                                 !.is_overridden = TRUE,
                                 !.override_reason =
                                    IF o.reason # "" THEN o.reason
                                    ELSE "Manual reorder"],
                     forced |-> ""]]
           [] OTHER -> L

RECURSIVE ApplyLoop(_, _)
ApplyLoop(L, ovs) ==
    IF ovs = <<>> THEN L ELSE ApplyLoop(ApplyOne(L, Head(ovs)), Tail(ovs))

\* OverrideManagerService._find_original_phase
FindOriginalPhase(ms, r) ==
    LET hits == SelectSeq(ms, LAMBDA g :
                    \E j \in 1..Len(g.nodes) : g.nodes[j].repository_id = r)
    IN IF hits = <<>> THEN "" ELSE hits[1].phase

\* result_buckets: every entry of repo_node_map that is not skipped goes to
\* its forced phase, or else to the phase it had in the input
RECURSIVE RebucketFrom(_, _, _, _)
RebucketFrom(ms, L, i, buckets) ==
    IF i > Len(L.entries) THEN buckets
    ELSE LET e == L.entries[i]
             phase == IF e.forced # "" THEN e.forced
                      ELSE FindOriginalPhase(ms, e.item.repository_id)
         IN RebucketFrom(ms, L, i + 1,
                IF e.item.repository_id \in L.skip \/ phase = "" THEN buckets
                ELSE [buckets EXCEPT ![phase] = Append(@, e.item)])

Rebucket(ms, ovs) ==
    RebucketFrom(ms, ApplyLoop([entries |-> FlatNodes(ms), skip |-> {}], ovs), 1,
                 [ph \in {MilestoneOrder[k] : k \in 1..Len(MilestoneOrder)} |-> <<>>])

\* The output loop that follows the import: each bucket sorted by
\* order_index, the empty ones left out
RECURSIVE SortedGroupsFrom(_, _)
SortedGroupsFrom(buckets, k) ==
    IF k > Len(MilestoneOrder) THEN <<>>
    ELSE LET phase == MilestoneOrder[k]
             items == StableSort(buckets[phase],
                          [it \in {buckets[phase][j] : j \in 1..Len(buckets[phase])}
                              |-> it.order_index])
         IN (IF items # <<>> THEN <<[phase |-> phase, nodes |-> items]>> ELSE <<>>)
            \o SortedGroupsFrom(buckets, k + 1)

\* What apply would return if application.dto.milestone_group defined the
\* name it imports
ApplyPastImport(ms, ovs) ==
    IF ovs = <<>> THEN ms ELSE SortedGroupsFrom(Rebucket(ms, ovs), 1)

\* apply without its early return for an empty override list
ApplyOverridesNoEarlyReturn(ms, ovs) ==
    [err |-> "ImportError", milestones |-> <<>>]

\* OverrideManagerService.apply: an empty list returns the milestones as they
\* are; otherwise the call ends at its import of _MILESTONE_ORDER from
\* application.dto.milestone_group, a name that module does not define, so
\* it raises ImportError before it returns anything.
ApplyOverrides(ms, ovs) ==
    IF ovs = <<>> THEN [err |-> "none", milestones |-> ms]
    ELSE [err |-> "ImportError", milestones |-> <<>>]

-----------------------------------------------------------------------------
(* PathGeneratorService *)

\* PathGeneratorService._filter_by_skill
FilterBySkill(repos, rp, types) ==
    IF types = {} THEN repos
    ELSE SelectSeq(repos, LAMBDA r : rp[r].skill = NoSkill
                                      \/ rp[r].skill.type \in types)

\* Step 2 of generate; max_repositories 0 stands for None
CapRepositories(repos, max) ==
    IF max # 0 /\ Len(repos) > max THEN SubSeq(repos, 1, max) ELSE repos

-----------------------------------------------------------------------------
(* Operations on one LearningPath *)

\* The iteration orders the model draws from: ids ascending and descending,
\* which between them give every order of a set of two.
Ascending == [i \in 1..NRepos |-> i]
Descending == [i \in 1..NRepos |-> NRepos + 1 - i]
\* The hash orders the model draws from: all identifiers, up and down
HashOrders ==
    {[i \in 1..(NRepos + 1) |-> i], [i \in 1..(NRepos + 1) |-> NRepos + 2 - i]}

Profile(ty, lv, cx, tp, hr) ==
    [skill |-> IF ty = "none" THEN NoSkill ELSE [type |-> ty, level |-> lv],
     complexity |-> cx, topics |-> tp, hours |-> hr]

\* The repository attributes the model draws from.
Profiles ==
    {Profile("none", "none", 20, {}, 10),
     Profile("backend", "basic", 20, {"react"}, 30),
     Profile("frontend", "basic", 10, {"html"}, 15),
     Profile("backend", "advanced", 20, {"html"}, 40),
     Profile("frontend", "intermediate", 70, {"react"}, 25)}

\* The relations add_dependency is called with: <<type, strength, created_by>>.
DepKinds ==
    {<<"prerequisite", "strong", "system">>,
     <<"recommended", "weak", "user">>}

\* The repositories the operations on one path are explored over.
SystemDepKinds == {<<"prerequisite", "strong", "system">>,
                   <<"recommended", "weak", "system">>}
PathRepos == {1, 2, 3}

NoOp == [op |-> "none", err |-> "none"]

PathCatalogue ==
    [r \in RepoIds |->
        CASE r % 3 = 1 -> Profile("backend", "basic", 35, {"html"}, 20)
          [] r % 3 = 2 -> Profile("frontend", "basic", 10, {"html"}, 15)
          [] OTHER -> Profile("backend", "advanced", 20, {}, 40)]

NoResponse ==
    [milestones |-> <<>>, total_repositories |-> 0, total_estimated_hours |-> 0,
     warnings |-> <<>>, repositories_considered |-> 0, repositories_included |-> 0]
IdleGen == [filtered |-> <<>>, sorted |-> <<>>, milestones |-> <<>>,
            warnings |-> <<>>, err |-> "none", response |-> NoResponse]
IdleRequest ==
    [repositories |-> <<>>, target_skill_types |-> {}, max_repositories |-> 0,
     exclude_repository_ids |-> {}, pending_overrides |-> <<>>]

InitPath ==
    /\ repo = PathCatalogue
    /\ path = EmptyPath
    /\ last = NoOp
    /\ pc = "path"
    /\ request = IdleRequest
    /\ gen = IdleGen
    /\ record = NewRecord

DoAddRepository ==
    \E r \in PathRepos :
        LET res == AddRepository(path, repo, r, {}) IN
        /\ path' = res.path
        /\ last' = NoOp
        /\ UNCHANGED <<record, repo, pc, request, gen>>

DoRemoveRepository ==
    \E n \in PathRepos :
        LET res == RemoveRepository(path, repo, n) IN
        /\ path' = res.path
        /\ last' = NoOp
        /\ UNCHANGED <<record, repo, pc, request, gen>>

\* The error add_dependency may raise is dropped (GraphBuilderService.build
\* does the same); the set iteration order decides nothing else of the call.
DoAddDependencyOf(kinds) ==
    \E s, t \in PathRepos, k \in kinds :
        LET res == AddDependency(path, repo, Ascending, s, t, k[1], k[2], k[3]) IN
        /\ Cardinality(res.path.deps) <= MaxDeps
        /\ path' = res.path
        /\ last' = NoOp
        /\ UNCHANGED <<record, repo, pc, request, gen>>

DoAddDependency == DoAddDependencyOf(DepKinds)

\* add_dependency with its default created_by, as the graph builder calls it
DoAddSystemDependency == DoAddDependencyOf(SystemDepKinds)

DoSort ==
    \E h \in HashOrders :
        LET res == SorterSort(path, repo, h) IN
        /\ path' = res.path
        /\ last' = [op |-> "sort", err |-> res.err, recovered |-> res.recovered,
                    witness |-> res.witness, affected |-> res.affected,
                    before |-> path]
        /\ UNCHANGED <<record, repo, pc, request, gen>>

NextPath == DoAddRepository \/ DoRemoveRepository \/ DoAddDependency \/ DoSort

SpecPath == InitPath /\ [][NextPath]_vars

\* The same operations with relations the system created only.
NextSystem == DoAddRepository \/ DoRemoveRepository \/ DoAddSystemDependency \/ DoSort

SpecSystem == InitPath /\ [][NextSystem]_vars

-----------------------------------------------------------------------------
(* Operations on the nodes of one LearningPath *)

NodeRepos == {1, 2}

Percentages == {50, 100, 150}

InitNode ==
    /\ repo = PathCatalogue
    /\ path = EmptyPath
    /\ last = NoOp
    /\ pc = "node"
    /\ request = IdleRequest
    /\ gen = IdleGen
    /\ record = NewRecord

NodeOp(op, n, res, met) ==
    [op |-> op, err |-> res.err, node |-> n, before |-> path.status[n], met |-> met]

DoNodeAddRepository ==
    \E r \in NodeRepos :
        LET res == AddRepository(path, repo, r, {}) IN
        /\ path' = res.path
        /\ last' = NoOp
        /\ UNCHANGED <<record, repo, pc, request, gen>>

\* add_prerequisite as add_dependency calls it, for a blocking relation
DoAddPrerequisite ==
    \E s, t \in NodeRepos :
        LET res == AddDependency(path, repo, Ascending, s, t,
                                 "prerequisite", "strong", "system") IN
        /\ path' = res.path
        /\ last' = NodeOp("prerequisite", t, res, TRUE)
        /\ UNCHANGED <<record, repo, pc, request, gen>>

DoStartLearning ==
    \E n \in Range(path.nodes), completed \in SUBSET NodeRepos :
        LET res == StartLearning(path, n, completed) IN
        /\ path' = res.path
        /\ last' = NodeOp("start", n, res, path.prereq[n] \subseteq completed)
        /\ UNCHANGED <<record, repo, pc, request, gen>>

DoUpdateProgress ==
    \E n \in Range(path.nodes), percentage \in Percentages :
        LET res == UpdateProgress(path, n, percentage) IN
        /\ path' = res.path
        /\ last' = NodeOp("progress", n, res, TRUE)
        /\ UNCHANGED <<record, repo, pc, request, gen>>

DoCompleteLearning ==
    \E n \in Range(path.nodes) :
        LET res == CompleteLearning(path, n) IN
        /\ path' = res.path
        /\ last' = NodeOp("complete", n, res, TRUE)
        /\ UNCHANGED <<record, repo, pc, request, gen>>

DoSkipLearning ==
    \E n \in Range(path.nodes) :
        LET res == SkipLearning(path, n) IN
        /\ path' = res.path
        /\ last' = NodeOp("skip", n, res, TRUE)
        /\ UNCHANGED <<record, repo, pc, request, gen>>

DoResetProgress ==
    \E n \in Range(path.nodes) :
        LET res == ResetProgress(path, n) IN
        /\ path' = res.path
        /\ last' = NodeOp("reset", n, res, TRUE)
        /\ UNCHANGED <<record, repo, pc, request, gen>>

NextNode ==
    \/ DoNodeAddRepository
    \/ DoAddPrerequisite
    \/ DoStartLearning
    \/ DoUpdateProgress
    \/ DoCompleteLearning
    \/ DoSkipLearning
    \/ DoResetProgress

SpecNode == InitNode /\ [][NextNode]_vars

-----------------------------------------------------------------------------
(* The sorter run again and again on one path of four nodes *)

StrongPairs ==
    {[source |-> x[1], target |-> x[2], type |-> "prerequisite", strength |-> "strong"] :
        x \in {y \in (1..4) \X (1..4) : y[1] # y[2]}}

PairLists ==
    {<<>>} \cup {<<d>> : d \in StrongPairs}
           \cup {<<d, e>> : d \in StrongPairs, e \in StrongPairs}

\* Two repositories of equal recommended learning order and two of equal
\* skill type and complexity
ResortCatalogue ==
    [r \in RepoIds |->
        CASE r = 1 -> Profile("frontend", "basic", 20, {}, 10)
          [] r = 2 -> Profile("backend", "basic", 20, {}, 20)
          [] r = 3 -> Profile("none", "none", 10, {}, 30)
          [] r = 4 -> Profile("none", "none", 10, {}, 40)
          [] OTHER -> PathCatalogue[r]]

\* A path as add_repository and add_dependency calls leave it
InitResort ==
    /\ repo = ResortCatalogue
    /\ \E order \in Orderings(1..4), pairs \in PairLists :
          path = AddDependencies(AddRepositories(EmptyPath, ResortCatalogue, order),
                                 ResortCatalogue, [i \in 1..(NRepos + 1) |-> i], pairs)
    /\ last = NoOp
    /\ pc = "path"
    /\ request = IdleRequest
    /\ gen = IdleGen
    /\ record = NewRecord

SpecResort == InitResort /\ [][DoSort]_vars

-----------------------------------------------------------------------------
(* add_repository, its outcome recorded *)

InitAdd ==
    /\ repo = PathCatalogue
    /\ path = EmptyPath
    /\ last = NoOp
    /\ pc = "add"
    /\ request = IdleRequest
    /\ gen = IdleGen
    /\ record = NewRecord

DoAddRepositoryWith ==
    \E r \in PathRepos, prerequisites \in {{}, {1}} :
        LET res == AddRepository(path, repo, r, prerequisites) IN
        /\ path' = res.path
        /\ last' = [op |-> "add", err |-> res.err, node |-> r, before |-> path]
        /\ UNCHANGED <<record, repo, pc, request, gen>>

NextAdd == DoAddRepositoryWith \/ DoAddSystemDependency

SpecAdd == InitAdd /\ [][NextAdd]_vars

-----------------------------------------------------------------------------
(* The skills of one Repository *)

\* A python repository as constructed: no skills, no topics
PythonRepository ==
    [skill |-> NoSkill, complexity |-> 0, topics |-> {}, hours |-> 0,
     secondary_skills |-> {}]

SkillChoices ==
    {[type |-> "backend", level |-> "basic"],
     [type |-> "backend", level |-> "advanced"],
     [type |-> "data_science", level |-> "basic"],
     [type |-> "frontend", level |-> "basic"]}

InitSkills ==
    /\ repo = [r \in RepoIds |-> PythonRepository]
    /\ path = EmptyPath
    /\ last = NoOp
    /\ pc = "skills"
    /\ request = IdleRequest
    /\ gen = IdleGen
    /\ record = NewRecord

DoSetPrimarySkill ==
    \E r \in NodeRepos, skill \in SkillChoices :
        LET res == SetPrimarySkill(repo[r], skill) IN
        /\ repo' = [repo EXCEPT ![r] = res.repository]
        /\ last' = [op |-> "set_primary_skill", err |-> res.err]
        /\ UNCHANGED <<record, path, pc, request, gen>>

DoAddSecondarySkill ==
    \E r \in NodeRepos, skill \in SkillChoices :
        LET res == AddSecondarySkill(repo[r], skill) IN
        /\ repo' = [repo EXCEPT ![r] = res.repository]
        /\ last' = [op |-> "add_secondary_skill", err |-> res.err]
        /\ UNCHANGED <<record, path, pc, request, gen>>

NextSkills == DoSetPrimarySkill \/ DoAddSecondarySkill

SpecSkills == InitSkills /\ [][NextSkills]_vars

-----------------------------------------------------------------------------
(* Operations on one ProgressRecord *)

RecordPercentages == {0, 50, 100, 150}

RecordOp(op, res) == [op |-> op, err |-> res.err, before |-> record]

InitRecord ==
    /\ repo = PathCatalogue
    /\ path = EmptyPath
    /\ last = NoOp
    /\ pc = "record"
    /\ request = IdleRequest
    /\ gen = IdleGen
    /\ record = NewRecord

DoRecordStart ==
    LET res == RecordStart(record) IN
    /\ record' = res.record
    /\ last' = RecordOp("start_learning", res)
    /\ UNCHANGED <<repo, path, pc, request, gen>>

DoRecordUpdateProgress ==
    \E percentage \in RecordPercentages, minutes \in {0, 30} :
        LET res == RecordUpdateProgress(record, percentage, minutes) IN
        /\ res.record.total_time_spent_minutes <= MaxMinutes
        /\ record' = res.record
        /\ last' = RecordOp("update_progress", res)
        /\ UNCHANGED <<repo, path, pc, request, gen>>

DoRecordPause ==
    LET res == RecordPause(record) IN
    /\ record' = res.record
    /\ last' = RecordOp("pause_learning", res)
    /\ UNCHANGED <<repo, path, pc, request, gen>>

DoRecordComplete ==
    LET res == RecordComplete(record) IN
    /\ record' = res.record
    /\ last' = RecordOp("complete_learning", res)
    /\ UNCHANGED <<repo, path, pc, request, gen>>

DoRecordAbandon ==
    LET res == RecordAbandon(record) IN
    /\ record' = res.record
    /\ last' = RecordOp("abandon_learning", res)
    /\ UNCHANGED <<repo, path, pc, request, gen>>

NextRecord ==
    \/ DoRecordStart
    \/ DoRecordUpdateProgress
    \/ DoRecordPause
    \/ DoRecordComplete
    \/ DoRecordAbandon

SpecRecord == InitRecord /\ [][NextRecord]_vars

-----------------------------------------------------------------------------
(* PathGeneratorService.generate, step by step *)

Cap == 2

\* The requests the model draws from.  The repository list holds every
\* repository once, as the store returns it.
Requests ==
    [repositories : {Ascending},
     target_skill_types : {{}, {"backend"}},
     max_repositories : {0, Cap},
     exclude_repository_ids : {{}, {2}},
     pending_overrides : {<<>>, <<OverrideInstruction(1, "skip", -1, "", "")>>}]

Init ==
    /\ \E f \in [1..NRepos -> Profiles] :
          repo = [r \in RepoIds |-> IF r <= NRepos THEN f[r] ELSE PathCatalogue[r]]
    /\ request \in Requests
    /\ path = EmptyPath
    /\ last = NoOp
    /\ pc = "filter"
    /\ gen = IdleGen
    /\ record = NewRecord

\* Steps 1 and 2: the skill filter and the max_repositories cap
GenFilter ==
    /\ pc = "filter"
    /\ LET byskill == FilterBySkill(request.repositories, repo,
                                    request.target_skill_types)
           capped == CapRepositories(byskill, request.max_repositories)
           w1 == IF Len(byskill) < Len(request.repositories)
                 THEN <<"filtered">> ELSE <<>>
           w2 == IF capped # byskill THEN <<"capped">> ELSE <<>>
       IN gen' = [gen EXCEPT !.filtered = capped, !.warnings = w1 \o w2]
    /\ pc' = "build"
    /\ UNCHANGED <<record, repo, path, last, request>>

\* Step 3: the graph build, and the warning for an empty path
GenBuild ==
    /\ pc = "build"
    /\ \E h \in HashOrders :
          path' = Build(repo, h, gen.filtered, request.exclude_repository_ids)
    /\ gen' = [gen EXCEPT !.warnings =
                  IF path'.nodes = <<>> THEN Append(@, "empty") ELSE @]
    /\ pc' = "sort"
    /\ UNCHANGED <<record, repo, last, request>>

\* Step 4: the sorter; InvalidLearningSequenceError ends the generation
GenSort ==
    /\ pc = "sort"
    /\ \E h \in HashOrders :
          LET res == SorterSort(path, repo, h) IN
          /\ path' = res.path
          /\ last' = [op |-> "sort", err |-> res.err, recovered |-> res.recovered,
                      witness |-> res.witness, affected |-> res.affected,
                      before |-> path]
          /\ IF res.err = "none"
             THEN /\ gen' = [gen EXCEPT !.sorted = res.path.nodes]
                  /\ pc' = "group"
             ELSE /\ gen' = [gen EXCEPT !.err = res.err]
                  /\ pc' = "failed"
    /\ UNCHANGED <<record, repo, request>>

\* Step 5: the milestone grouper
GenGroup ==
    /\ pc = "group"
    /\ \E h \in HashOrders :
          gen' = [gen EXCEPT !.milestones = GroupNodes(gen.sorted, repo, path, h)]
    /\ pc' = "override"
    /\ UNCHANGED <<record, repo, path, last, request>>

\* Step 6: the pending overrides, when there are any
GenOverride ==
    /\ pc = "override"
    /\ IF request.pending_overrides = <<>>
       THEN /\ pc' = "respond"
            /\ UNCHANGED gen
       ELSE LET res == ApplyOverrides(gen.milestones, request.pending_overrides) IN
            IF res.err = "none"
            THEN /\ gen' = [gen EXCEPT !.milestones = res.milestones]
                 /\ pc' = "respond"
            ELSE /\ gen' = [gen EXCEPT !.err = res.err]
                 /\ pc' = "failed"
    /\ UNCHANGED <<record, repo, path, last, request>>

\* Step 7: the response
GenRespond ==
    /\ pc = "respond"
    /\ gen' = [gen EXCEPT !.response =
                  [milestones |-> gen.milestones,
                   total_repositories |-> path.total_repositories,
                   total_estimated_hours |-> path.total_estimated_hours,
                   warnings |-> gen.warnings,
                   repositories_considered |-> Len(request.repositories),
                   repositories_included |-> Len(path.nodes)]]
    /\ pc' = "done"
    /\ UNCHANGED <<record, repo, path, last, request>>

Next == GenFilter \/ GenBuild \/ GenSort \/ GenGroup \/ GenOverride \/ GenRespond

Spec == Init /\ [][Next]_vars

-----------------------------------------------------------------------------
(* Scenario S1: four backend repositories, one per skill level *)

S1Catalogue ==
    [r \in RepoIds |->
        CASE r = 1 -> Profile("backend", "basic", 10, {}, 10)
          [] r = 2 -> Profile("backend", "intermediate", 35, {}, 20)
          [] r = 3 -> Profile("backend", "advanced", 60, {}, 30)
          [] r = 4 -> Profile("backend", "expert", 80, {}, 40)
          [] OTHER -> PathCatalogue[r]]

\* The default request on the four repositories, in any input order
InitS1 ==
    /\ repo = S1Catalogue
    /\ \E order \in Orderings(1..4) :
          request = [IdleRequest EXCEPT !.repositories = order]
    /\ path = EmptyPath
    /\ last = NoOp
    /\ pc = "filter"
    /\ gen = IdleGen
    /\ record = NewRecord

SpecS1 == InitS1 /\ [][Next]_vars

-----------------------------------------------------------------------------
(* Generation under a cap and exclusions *)

\* Requests on the four repositories of ResortCatalogue, none of which the
\* builder relates to another
InitCap ==
    /\ repo = ResortCatalogue
    /\ \E order \in Orderings(1..4), types \in {{}, {"backend"}},
          max \in {0, 1, Cap}, exclude \in SUBSET {1, 2} :
          request = [IdleRequest EXCEPT !.repositories = order,
                                        !.target_skill_types = types,
                                        !.max_repositories = max,
                                        !.exclude_repository_ids = exclude]
    /\ path = EmptyPath
    /\ last = NoOp
    /\ pc = "filter"
    /\ gen = IdleGen
    /\ record = NewRecord

SpecCap == InitCap /\ [][Next]_vars

-----------------------------------------------------------------------------
(* A learner working through a built path *)

MaxParallel == 2

\* A path as GraphBuilderService.build leaves it, with its parallel settings
InitLearn ==
    /\ \E f \in [1..NRepos -> Profiles] :
          repo = [r \in RepoIds |-> IF r <= NRepos THEN f[r] ELSE PathCatalogue[r]]
    /\ \E order \in Orderings(1..NRepos), h \in HashOrders,
          allow \in BOOLEAN, max \in 1..MaxParallel :
          path = [Build(repo, h, order, {}) EXCEPT
                     !.allow_parallel_learning = allow,
                     !.max_parallel_nodes = max]
    /\ last = NoOp
    /\ pc = "learn"
    /\ request = IdleRequest
    /\ gen = IdleGen
    /\ record = NewRecord

\* The learner starts one of the nodes get_next_available_nodes returns
DoStartAvailable ==
    \E n \in Range(GetNextAvailableNodes(path, repo)) :
        LET completed_ids == {m \in Range(path.nodes) : path.status[m] = "completed"}
            res == StartLearning(path, n, completed_ids) IN
        /\ path' = res.path
        /\ last' = NodeOp("start", n, res, TRUE)
        /\ UNCHANGED <<record, repo, pc, request, gen>>

\* The learner completes a node in progress
DoCompleteStarted ==
    \E n \in Range(path.nodes) :
        /\ path.status[n] = "in_progress"
        /\ LET res == CompleteLearning(path, n) IN
           /\ path' = res.path
           /\ last' = NodeOp("complete", n, res, TRUE)
        /\ UNCHANGED <<record, repo, pc, request, gen>>

NextLearn == DoStartAvailable \/ DoCompleteStarted

SpecLearn == InitLearn /\ [][NextLearn]_vars

\* What one run of generate gives for a request, with h the iteration order
\* of its sets: the error, or the node order, the relations and the phases.
\* The prerequisites of an item are compared as a set: they are the fresh
\* node ids, listed in the order of their hashes.
ItemUpToIds(item) == [item EXCEPT !.prerequisites = Range(@)]

PhasesUpToIds(ms) ==
    [i \in 1..Len(ms) |->
        [phase |-> ms[i].phase,
         nodes |-> [j \in 1..Len(ms[i].nodes) |-> ItemUpToIds(ms[i].nodes[j])]]]

Outcome(err, nodes, deps, ms) ==
    IF err # "none"
    THEN [err |-> err, nodes |-> <<>>, deps |-> {}, milestones |-> <<>>]
    ELSE [err |-> "none", nodes |-> nodes, deps |-> deps,
          milestones |-> PhasesUpToIds(ms)]

Generate(rp, req, h) ==
    LET filtered == CapRepositories(
                        FilterBySkill(req.repositories, rp, req.target_skill_types),
                        req.max_repositories)
        built == Build(rp, h, filtered, req.exclude_repository_ids)
        sorted == SorterSort(built, rp, h)
        grouped == GroupNodes(sorted.path.nodes, rp, sorted.path, h)
        applied == IF req.pending_overrides = <<>>
                   THEN [err |-> "none", milestones |-> grouped]
                   ELSE ApplyOverrides(grouped, req.pending_overrides)
    IN IF sorted.err # "none" THEN Outcome(sorted.err, <<>>, {}, <<>>)
       ELSE Outcome(applied.err, sorted.path.nodes, sorted.path.deps,
                    applied.milestones)

-----------------------------------------------------------------------------
(* OverrideManagerService.apply on its own *)

NItems == 4

\* The item the grouper makes of the i-th sorted node
BaselineItem(i) ==
    [repository_id |-> i, order_index |-> i - 1, estimated_hours |-> 10,
     skill_level |-> "basic", prerequisites |-> <<>>,
     is_overridden |-> FALSE, override_reason |-> ""]

RECURSIVE BaselineBuckets(_, _, _)
BaselineBuckets(assign, i, buckets) ==
    IF i > NItems THEN buckets
    ELSE BaselineBuckets(assign, i + 1,
                         BucketAppend(buckets, assign[i], BaselineItem(i)))

\* The phase list the grouper returns for sorted nodes 1..NItems whose
\* phases are assign[1], ..., assign[NItems]
Baseline(assign) ==
    OutputGroups(BaselineBuckets(assign, 1,
                    [ph \in {MilestoneOrder[k] : k \in 1..Len(MilestoneOrder)} |-> <<>>]))

\* The overrides the model draws from; repository 0 is in no phase list and
\* "bogus" is no phase
OverrideChoices ==
    {OverrideInstruction(2, "skip", -1, "", ""),
     OverrideInstruction(0, "skip", -1, "", ""),
     OverrideInstruction(4, "reorder", 0, "", ""),
     OverrideInstruction(2, "reorder", 5, "", "later"),
     OverrideInstruction(2, "milestone", -1, "advanced_systems", ""),
     OverrideInstruction(1, "milestone", -1, "bogus", ""),
     OverrideInstruction(3, "note", -1, "", "remember")}

OverrideLists ==
    {<<>>} \cup {<<o>> : o \in OverrideChoices}
           \cup {<<o1, o2>> : o1 \in OverrideChoices, o2 \in OverrideChoices}

InitApply ==
    /\ repo = PathCatalogue
    /\ path = EmptyPath
    /\ last = NoOp
    /\ pc = "apply"
    /\ \E ovs \in OverrideLists :
          request = [IdleRequest EXCEPT !.pending_overrides = ovs]
    /\ \E assign \in [1..NItems -> {MilestoneOrder[k] : k \in 1..Len(MilestoneOrder)}] :
          gen = [IdleGen EXCEPT !.milestones = Baseline(assign)]
    /\ record = NewRecord

\* One call apply(milestones, overrides); what it returns is kept in the
\* response, the error it raises in err
DoApply ==
    /\ pc = "apply"
    /\ LET res == ApplyOverrides(gen.milestones, request.pending_overrides) IN
       gen' = [gen EXCEPT !.response.milestones = res.milestones, !.err = res.err]
    /\ pc' = "applied"
    /\ UNCHANGED <<record, repo, path, last, request>>

NextApply == DoApply

SpecApply == InitApply /\ [][NextApply]_vars

-----------------------------------------------------------------------------
(* Graphs *)

RECURSIVE Closure(_)
Closure(E) ==
    LET E2 == E \cup {x \in RepoIds \X RepoIds :
                          \E e \in E, f \in E : e[2] = f[1] /\ x = <<e[1], f[2]>>} IN
    IF E2 = E THEN E ELSE Closure(E2)

Acyclic(E) == \A e \in Closure(E) : e[1] # e[2]

\* a -> b: a is in the prerequisite_nodes of b
PrereqEdges(P) == {<<a, b>> \in RepoIds \X RepoIds : a \in P.prereq[b]}

BlockingEdges(P) == {<<d.source, d.target>> : d \in {e \in P.deps : IsBlocking(e)}}

\* The nodes Kahn's algorithm cannot place: those on or downstream of a cycle.
Unplaced(P) == Range(P.nodes) \ Range(KahnOrder(P, repo, Ascending))

\* c is a closed walk along prerequisite_nodes: it ends where it starts, each
\* node lists the next one among its prerequisites, and no node but the
\* first comes twice.
IsPrereqCycle(c, P) ==
    /\ Len(c) >= 3
    /\ c[1] = c[Len(c)]
    /\ \A i \in 1..(Len(c) - 1) : c[i + 1] \in P.prereq[c[i]]
    /\ \A i, j \in 1..(Len(c) - 1) : c[i] = c[j] => i = j

SortFailed == last.op = "sort" /\ last.err = "InvalidLearningSequenceError"

-----------------------------------------------------------------------------
(* Claims about the operations on one path *)

\* C2: after any sequence of add_repository, add_dependency and
\* remove_repository calls, also when add_dependency raised
\* CircularDependencyError, neither the blocking relations of
\* path.dependencies nor the nodes' prerequisite_nodes form a cycle.
C2_NoCycleAfterMutation ==
    Acyclic(BlockingEdges(path)) /\ Acyclic(PrereqEdges(path))

\* C3 as claimed: when sort raises InvalidLearningSequenceError, the
\* affected-nodes set is exactly the set of nodes the re-run of Kahn's
\* algorithm could not place.
C3_AffectedEqualsUnplaced ==
    SortFailed => Range(last.affected) = Unplaced(path)

\* C3 as amended: when sort raises InvalidLearningSequenceError, the
\* affected-nodes list is one cycle of the remaining prerequisite graph (the
\* witness of the depth-first search), its nodes are among those Kahn's
\* re-run could not place, and they are all of them when only two nodes were
\* left unplaced (a lone 2-cycle a <-> b gives {a, b}).
C3_AffectedIsWitnessCycle ==
    SortFailed =>
        /\ IsPrereqCycle(last.affected, path)
        /\ Range(last.affected) \subseteq Unplaced(path)
        /\ (Cardinality(Unplaced(path)) = 2
               => Range(last.affected) = Unplaced(path))

\* C3 witness: sort failed on a 2-cycle with a third node downstream of it.
C3_Witness ==
    /\ SortFailed
    /\ Cardinality(Range(last.affected)) = 2
    /\ Cardinality(Unplaced(path)) = 3

\* C4: every relation created by the user that was in path.dependencies
\* before sort is still there afterwards, whatever its type and strength.
C4_UserRelationsKept ==
    last.op = "sort" =>
        \A d \in last.before.deps : d.created_by = "user" => d \in path.deps

\* C5: the recovery pass removes only removable relations whose source and
\* target both lie on the witness cycle, and the prerequisite_nodes of nodes
\* that no removed relation targets are unchanged.
C5_OnlyWitnessCycleTouched ==
    (last.op = "sort" /\ last.recovered) =>
        /\ \A d \in last.before.deps \ path.deps :
              /\ d \in Removable(last.before.deps)
              /\ d.source \in Range(last.witness)
              /\ d.target \in Range(last.witness)
        /\ \A n \in RepoIds :
              (\A d \in last.before.deps \ path.deps : d.target # n)
                  => path.prereq[n] = last.before.prereq[n]

\* Three weak recommended relations the system created, closing a -> b -> c -> a
WeakTriangle(deps) ==
    \E a, b, c \in RepoIds :
        /\ a # b /\ b # c /\ a # c
        /\ deps = {Relation(a, b, "recommended", "weak", "system"),
                   Relation(b, c, "recommended", "weak", "system"),
                   Relation(c, a, "recommended", "weak", "system")}

\* sort ran on a path of three nodes whose only relations were the weak
\* triangle and whose prerequisite_nodes were all empty, as three
\* add_dependency calls on a fresh path leave them
SortedWeakTriangle ==
    /\ last.op = "sort"
    /\ Len(last.before.nodes) = 3
    /\ WeakTriangle(last.before.deps)
    /\ \A n \in RepoIds : last.before.prereq[n] = {}

IsPermutation(s, t) ==
    /\ Len(s) = Len(t)
    /\ Range(s) = Range(t)
    /\ \A i, j \in 1..Len(s) : s[i] = s[j] => i = j

\* C6 as claimed: on the weak triangle sort returns a total order over
\* {a, b, c} without raising, and at least one of the three relations has
\* been removed from path.dependencies.
C6_WeakTriangleLosesRelation ==
    SortedWeakTriangle =>
        /\ last.err = "none"
        /\ IsPermutation(path.nodes, last.before.nodes)
        /\ \E d \in last.before.deps : d \notin path.deps

\* C6 as amended: on the weak triangle sort returns a total order over
\* {a, b, c} without raising, the recovery pass does not run, and all three
\* relations are still in path.dependencies.
C6_WeakTriangleSortsUntouched ==
    SortedWeakTriangle =>
        /\ last.err = "none"
        /\ IsPermutation(path.nodes, last.before.nodes)
        /\ ~last.recovered
        /\ path.deps = last.before.deps

\* C6 witness: sort has run on the weak triangle.
C6_Witness == SortedWeakTriangle /\ Len(path.nodes) = 3

-----------------------------------------------------------------------------
(* Claims about the generation pipeline *)

\* a comes before b in the sequence s
Before(s, a, b) == \E i, j \in 1..Len(s) : i < j /\ s[i] = a /\ s[j] = b

\* The repository ids of a phase's items, and of all phases in output order
RECURSIVE PhaseNodeIds(_)
GroupNodeIds(g) == [j \in 1..Len(g.nodes) |-> g.nodes[j].repository_id]
PhaseNodeIds(ms) ==
    IF ms = <<>> THEN <<>> ELSE GroupNodeIds(Head(ms)) \o PhaseNodeIds(Tail(ms))

PhaseRank(ph) == IndexOf(MilestoneOrder, ph)

\* C1: after a generation that returned, every blocking relation a -> b of
\* the path has a before b in path.nodes, and no node comes before one of
\* its prerequisite_nodes.
C1_PrerequisitesFirst ==
    pc = "done" =>
        /\ \A d \in path.deps :
              IsBlocking(d) => Before(path.nodes, d.source, d.target)
        /\ \A n \in Range(path.nodes) : \A q \in path.prereq[n] :
              Before(path.nodes, q, n)

C8_ConcatEqualsNodes ==
    pc = "done" => PhaseNodeIds(gen.response.milestones) = path.nodes

\* C8 as amended: after every generation that returns, the concatenated node
\* lists of the returned phases hold the nodes of path.nodes, each once, and
\* within each phase the nodes are in their path.nodes order.
C8_ConcatIsPermutation ==
    pc = "done" =>
        LET ms == gen.response.milestones IN
        /\ IsPermutation(PhaseNodeIds(ms), path.nodes)
        /\ \A k \in 1..Len(ms) :
              LET ids == GroupNodeIds(ms[k]) IN
              \A i, j \in 1..Len(ids) : i < j => Before(path.nodes, ids[i], ids[j])

\* C8 witness: a generation returned three nodes in two phases or more,
\* concatenated in another order than path.nodes.
C8_Witness ==
    /\ pc = "done"
    /\ Len(path.nodes) >= 3
    /\ Len(gen.response.milestones) >= 2
    /\ PhaseNodeIds(gen.response.milestones) # path.nodes

PhaseListOk(ms) ==
    /\ \A i \in 1..Len(ms) :
          ms[i].phase \in Range(MilestoneOrder) /\ ms[i].nodes # <<>>
    /\ \A i, j \in 1..Len(ms) :
          i < j => PhaseRank(ms[i].phase) < PhaseRank(ms[j].phase)

\* C9: the phase list the grouper returns, and the one the override applier
\* returns when it returns, has its phases in the order foundations,
\* core_skills, advanced_systems, specialized_topics, each at most once and
\* none with an empty node list.
C9_PhasesInFixedOrder ==
    pc \in {"override", "respond", "done"} =>
        /\ PhaseListOk(gen.milestones)
        /\ \A ovs \in {<<>>, request.pending_overrides} :
              LET res == ApplyOverrides(gen.milestones, ovs) IN
              res.err = "none" => PhaseListOk(res.milestones)

\* C9 witness: the grouper returned three phases, one of the four left out.
C9_Witness ==
    /\ pc = "override"
    /\ Len(gen.milestones) = 3

\* C10: the grouper puts each node of its input in exactly one phase, and
\* the node list of each phase is the input restricted to the nodes assigned
\* to that phase, in input order.
C10_GrouperKeepsInputOrder ==
    pc = "override" =>
        LET ms == gen.milestones IN
        /\ \A n \in Range(gen.sorted) :
              Cardinality({x \in (1..Len(ms)) \X (1..NRepos) :
                              /\ x[2] <= Len(ms[x[1]].nodes)
                              /\ ms[x[1]].nodes[x[2]].repository_id = n}) = 1
        /\ \A ph \in Range(MilestoneOrder) :
              LET expected == SelectSeq(gen.sorted,
                                        LAMBDA n : AssignPhase(repo[n]) = ph)
                  got == SelectSeq(ms, LAMBDA g : g.phase = ph)
              IN IF expected = <<>> THEN got = <<>>
                 ELSE Len(got) = 1 /\ GroupNodeIds(got[1]) = expected

\* C10 witness: the grouper returned two phases, one of them with two nodes.
C10_Witness ==
    /\ pc = "override"
    /\ Len(gen.milestones) >= 2
    /\ \E k \in 1..Len(gen.milestones) : Len(gen.milestones[k].nodes) >= 2

-----------------------------------------------------------------------------
(* Claims about the phase of a node *)

LevelPhase ==
    [basic |-> "foundations", intermediate |-> "core_skills",
     advanced |-> "advanced_systems", expert |-> "specialized_topics"]

\* The phase the complexity alone gives: one step up at 3.0, 5.0 and 7.0
ComplexityPhase(cx) == MilestoneOrder[1 + Cardinality({b \in {30, 50, 70} : cx >= b})]

ExpectedPhase(p) ==
    IF p.skill # NoSkill THEN LevelPhase[p.skill.level] ELSE ComplexityPhase(p.complexity)

\* Repositories of every skill level, and of none, on both sides of each
\* complexity threshold
PhaseInputs ==
    {Profile(ty, lv, cx, {}, 10) :
        ty \in {"none", "backend"}, lv \in SkillLevels,
        cx \in {10, 29, 30, 49, 50, 69, 70, 95}}

-----------------------------------------------------------------------------
(* Claims about OverrideManagerService.apply *)

Applied == pc = "applied"

PhaseOf(ms, r) ==
    IF \E k \in 1..Len(ms) : r \in Range(GroupNodeIds(ms[k]))
    THEN ms[CHOOSE k \in 1..Len(ms) : r \in Range(GroupNodeIds(ms[k]))].phase
    ELSE ""

IdsOfPhase(ms, ph) ==
    IF \E k \in 1..Len(ms) : ms[k].phase = ph
    THEN GroupNodeIds(ms[CHOOSE k \in 1..Len(ms) : ms[k].phase = ph])
    ELSE <<>>

ItemOf(ms, r) ==
    LET k == CHOOSE k \in 1..Len(ms) : r \in Range(GroupNodeIds(ms[k]))
        j == CHOOSE j \in 1..Len(ms[k].nodes) : ms[k].nodes[j].repository_id = r
    IN  ms[k].nodes[j]

Without(seq, r) == SelectSeq(seq, LAMBDA x : x # r)

TargetInPath(o) == PhaseOf(gen.milestones, o.repository_id) # ""

\* C12: a list of overrides is applied in input order, so applying the list
\* gives what applying its overrides one call after the other gives, and
\* force_phase(r, P) followed by reorder(r, k) leaves r in P with order_index k.
C12_AppliedInInputOrder ==
    (Applied /\ Len(request.pending_overrides) = 2) =>
        LET ovs    == request.pending_overrides
            first  == ApplyOverrides(gen.milestones, <<ovs[1]>>)
            second == ApplyOverrides(first.milestones, <<ovs[2]>>)
            out    == gen.response.milestones
        IN  /\ gen.err = "none"
            /\ first.err = "none"
            /\ second.err = "none"
            /\ out = second.milestones
            /\ (/\ ovs[1] = OverrideInstruction(2, "milestone", -1, "advanced_systems", "")
                /\ ovs[2] = OverrideInstruction(2, "reorder", 5, "", "later"))
               => /\ PhaseOf(out, 2) = "advanced_systems"
                  /\ ItemOf(out, 2).order_index = 5

\* C13: force_phase on a node of the path takes it out of its former phase
\* and makes it the last node of the named phase, whatever its order_index.
C13_ForcedNodeAtTail ==
    \A o \in OverrideChoices :
        (/\ Applied
         /\ request.pending_overrides = <<o>>
         /\ o.override_type = "milestone"
         /\ ParseMilestone(o.target_milestone) # ""
         /\ TargetInPath(o))
        => LET out == gen.response.milestones
               ids == IdsOfPhase(out, o.target_milestone)
           IN  /\ gen.err = "none"
               /\ PhaseOf(out, o.repository_id) = o.target_milestone
               /\ ids # <<>>
               /\ ids[Len(ids)] = o.repository_id

\* C14: after skip(r) the node r is in no phase of the output, whatever other
\* overrides of the list target it, and every other node stays in its phase
\* in the same relative order.
C14_SkipRemovesOnlyTarget ==
    \A o \in OverrideChoices :
        (/\ Applied
         /\ o.override_type = "skip"
         /\ TargetInPath(o)
         /\ o \in Range(request.pending_overrides)
         /\ \A p \in Range(request.pending_overrides) :
                p.repository_id = o.repository_id)
        => LET out == gen.response.milestones IN
           /\ gen.err = "none"
           /\ PhaseOf(out, o.repository_id) = ""
           /\ \A k \in 1..Len(MilestoneOrder) :
                 IdsOfPhase(out, MilestoneOrder[k])
                   = Without(IdsOfPhase(gen.milestones, MilestoneOrder[k]),
                             o.repository_id)

DefaultReason(o) ==
    IF o.reason # "" THEN o.reason
    ELSE IF o.override_type = "milestone" THEN MovedTo(o.target_milestone)
    ELSE IF o.override_type = "reorder" THEN "Manual reorder"
    ELSE ""

\* C15: a node targeted by reorder, by force_phase with a known phase or by
\* note comes out with is_overridden = true and the supplied (or default)
\* override_reason; a note changes neither its phase nor its position.
C15_TargetMarkedOverridden ==
    \A o \in OverrideChoices :
        (/\ Applied
         /\ request.pending_overrides = <<o>>
         /\ TargetInPath(o)
         /\ \/ o.override_type \in {"reorder", "note"}
            \/ o.override_type = "milestone" /\ ParseMilestone(o.target_milestone) # "")
        => LET out == gen.response.milestones IN
           /\ gen.err = "none"
           /\ PhaseOf(out, o.repository_id) # ""
           /\ ItemOf(out, o.repository_id).is_overridden
           /\ ItemOf(out, o.repository_id).override_reason = DefaultReason(o)
           /\ o.override_type = "note" =>
                 \A k \in 1..Len(MilestoneOrder) :
                    IdsOfPhase(out, MilestoneOrder[k])
                      = IdsOfPhase(gen.milestones, MilestoneOrder[k])

\* C16: an override whose repository_id is the id of no node of the path
\* raises nothing, returns the phase list it was given and adds exactly one
\* warning to the warnings of the generation.
C16_UnknownTargetWarnsOnce ==
    \A o \in OverrideChoices :
        (/\ Applied
         /\ request.pending_overrides = <<o>>
         /\ ~TargetInPath(o))
        => /\ gen.err = "none"
           /\ gen.response.milestones = gen.milestones
           /\ Len(gen.warnings) = 1

\* C17: applying the empty list of overrides returns the phase list it was
\* given, unchanged.
C17_EmptyListIsIdentity ==
    (Applied /\ request.pending_overrides = <<>>) =>
        /\ gen.err = "none"
        /\ gen.response.milestones = gen.milestones

C17_Witness ==
    /\ Applied
    /\ request.pending_overrides = <<>>
    /\ Len(gen.milestones) >= 2
    /\ gen.response.milestones = gen.milestones

S6Baseline ==
    Baseline([i \in 1..NItems |->
                 IF i = 1 THEN "foundations"
                 ELSE IF i \in {2, 3} THEN "core_skills"
                 ELSE "advanced_systems"])

S6Overrides ==
    <<OverrideInstruction(2, "skip", -1, "", ""),
      OverrideInstruction(4, "reorder", 0, "", "")>>

\* C18: scenario S6: from foundations = [r1], core_skills = [r2, r3],
\* advanced_systems = [r4], the overrides skip(r2), reorder(r4, 0) give an
\* output without a foundations phase, with core_skills = [r3] and
\* advanced_systems = [r4], r4 marked overridden and r2 nowhere.
C18_ScenarioS6 ==
    (/\ Applied
     /\ NItems = 4
     /\ gen.milestones = S6Baseline
     /\ request.pending_overrides = S6Overrides)
    => LET out == gen.response.milestones IN
       /\ gen.err = "none"
       /\ IdsOfPhase(out, "foundations") = <<>>
       /\ IdsOfPhase(out, "core_skills") = <<3>>
       /\ IdsOfPhase(out, "advanced_systems") = <<4>>
       /\ ItemOf(out, 4).is_overridden
       /\ PhaseOf(out, 2) = ""

-----------------------------------------------------------------------------
(* Claims about the status of a node *)

\* C19: over any sequence of node operations the status changes only along
\* the machine: in_progress is entered only from not_started by a start whose
\* prerequisites are all completed, completed only from in_progress, skipped
\* only from not_started or in_progress, and not_started is re-entered only
\* by a reset from a status other than in_progress.
C19_StatusMachine ==
    [][\A n \in NodeRepos :
         LET a == path.status[n]
             b == path'.status[n]
         IN (a # b /\ a # "none") =>
            /\ b = "in_progress" =>
                  a = "not_started" /\ last'.op = "start" /\ last'.met
            /\ b = "completed" => a = "in_progress"
            /\ b = "skipped" => a \in {"not_started", "in_progress"}
            /\ b = "not_started" => last'.op = "reset" /\ a # "in_progress"]_vars

\* C19 as the code has it: in_progress is entered only by a start from a
\* status other than completed and in_progress, with every prerequisite in
\* the completed set the caller supplied; completed only from in_progress;
\* skipped by a skip from any status but completed; not_started re-entered
\* only by a reset from a status other than in_progress; blocked only by
\* add_prerequisite from not_started or available.
C19_StatusMachineOfCode ==
    [][\A n \in NodeRepos :
         LET a == path.status[n]
             b == path'.status[n]
         IN (a # b /\ a # "none") =>
            /\ last'.node = n
            /\ b = "in_progress" =>
                  /\ a \in {"not_started", "available", "blocked", "skipped"}
                  /\ last'.op = "start" /\ last'.met
            /\ b = "completed" =>
                  a = "in_progress" /\ last'.op \in {"complete", "progress"}
            /\ b = "skipped" => a # "completed" /\ last'.op = "skip"
            /\ b = "not_started" => last'.op = "reset" /\ a # "in_progress"
            /\ b = "blocked" =>
                  a \in {"not_started", "available"} /\ last'.op = "prerequisite"
            /\ b \in {"in_progress", "completed", "skipped", "not_started", "blocked"}]_vars

C19_Witness ==
    /\ pc = "node"
    /\ last.op = "start"
    /\ last.err = "none"
    /\ last.before = "blocked"
    /\ last.met
    /\ path.status[last.node] = "in_progress"
    /\ path.prereq[last.node] # {}

-----------------------------------------------------------------------------
(* Claims about the inferred relations *)

\* Some topic of b lists a topic of a among its parent topics
TopicParent(a, b) ==
    \E t \in repo[b].topics : ParentTopics(t) \cap repo[a].topics # {}

\* C20: for included repositories A and B where a topic of B lists a topic of
\* A among its parents, the generation emits A -> B as a strong prerequisite
\* and A comes before B in the final node order, whatever their complexity,
\* skill level and input position.
C20_TopicParentComesFirst ==
    pc = "done" =>
        \A a, b \in Range(path.nodes) :
            (a # b /\ TopicParent(a, b)) =>
                /\ Relation(a, b, "prerequisite", "strong", "system") \in path.deps
                /\ Before(path.nodes, a, b)

-----------------------------------------------------------------------------
(* Claims about scenario S1 *)

S1Done == pc = "done" /\ repo = S1Catalogue /\ Len(request.repositories) = 4

S1Shape ==
    /\ path.nodes = <<1, 2, 3, 4>>
    /\ [k \in 1..Len(gen.response.milestones) |-> gen.response.milestones[k].phase]
          = MilestoneOrder
    /\ \A k \in 1..Len(gen.response.milestones) :
          GroupNodeIds(gen.response.milestones[k]) = <<k>>
    /\ gen.response.total_repositories = 4

\* C21: scenario S1: the generation yields the node order [r1, r2, r3, r4],
\* one phase per repository in phase order, total_repositories = 4, and a
\* dependency set made of exactly the three prerequisite relations r1 -> r2,
\* r2 -> r3, r3 -> r4.
C21_ScenarioS1 ==
    S1Done =>
        /\ S1Shape
        /\ {<<d.source, d.target>> : d \in path.deps} = {<<1, 2>>, <<2, 3>>, <<3, 4>>}
        /\ \A d \in path.deps : d.type = "prerequisite"

\* C21 as the code has it: the same order, phases and total, with one
\* moderate prerequisite relation for every pair of a lower and a higher
\* level, six in all.
C21_ScenarioS1AllPairs ==
    S1Done =>
        /\ S1Shape
        /\ path.deps = {Relation(x[1], x[2], "prerequisite", "moderate", "system") :
                           x \in {y \in (1..4) \X (1..4) : y[1] < y[2]}}

C21_Witness ==
    /\ S1Done
    /\ request.repositories = <<4, 3, 2, 1>>
    /\ Cardinality(path.deps) = 6
    /\ Len(gen.response.milestones) = 4

-----------------------------------------------------------------------------
(* Claims about sorting again *)

\* C22: sorting is idempotent on the node order: when a sort has succeeded,
\* a second sort of the resulting path leaves path.nodes in the same order.
C22_SortIdempotent ==
    [][(/\ last.op = "sort" /\ last.err = "none"
        /\ last'.op = "sort" /\ last'.err = "none")
       => path'.nodes = path.nodes]_vars

-----------------------------------------------------------------------------
(* Claims about the cap *)

\* The repositories left by the skill filter and the exclusions, in input order
Remaining ==
    SelectSeq(FilterBySkill(request.repositories, repo, request.target_skill_types),
              LAMBDA r : r \notin request.exclude_repository_ids)

\* C23: with max_repositories = N and more than N repositories left by the
\* skill filter and the exclusions, the generated path has exactly N nodes,
\* the first N of those repositories in input order.
C23_CapKeepsFirstN ==
    (/\ pc = "done"
     /\ request.max_repositories # 0
     /\ Len(Remaining) > request.max_repositories)
    => /\ Len(path.nodes) = request.max_repositories
       /\ Range(path.nodes) = Range(SubSeq(Remaining, 1, request.max_repositories))

-----------------------------------------------------------------------------
(* Claims about the totals of a path *)

-----------------------------------------------------------------------------
(* Claims about adding a repository twice *)

NoDuplicates(seq) == \A i, j \in 1..Len(seq) : seq[i] = seq[j] => i = j

\* C25: add_repository with a repository already in the path raises
\* BusinessRuleViolation and leaves the nodes, the relations and the totals
\* as they were; no two nodes of a path hold the same repository.
C25_DuplicateRefused ==
    /\ NoDuplicates(path.nodes)
    /\ (last.op = "add" /\ last.node \in Range(last.before.nodes)) =>
          /\ last.err = "BusinessRuleViolation"
          /\ path.nodes = last.before.nodes
          /\ path.deps = last.before.deps
          /\ path.total_repositories = last.before.total_repositories
          /\ path.total_estimated_hours = last.before.total_estimated_hours

C25_Witness ==
    /\ last.op = "add"
    /\ last.node \in Range(last.before.nodes)
    /\ last.err = "BusinessRuleViolation"
    /\ Len(path.nodes) >= 2
    /\ path.deps # {}

-----------------------------------------------------------------------------
(* Claims about the skills of a repository *)

\* C26: after any sequence of set_primary_skill and add_secondary_skill
\* calls, in either order, the primary skill of a repository is not one of
\* its secondary skills.
C26_PrimaryNotSecondary ==
    pc = "skills" =>
        \A r \in NodeRepos : repo[r].skill \notin repo[r].secondary_skills

-----------------------------------------------------------------------------
(* Claims about a progress record *)

\* C27: start_learning succeeds only from not_started and complete_learning
\* only from in_progress or paused; in any other status the call raises
\* BusinessRuleViolation and leaves status, progress_percentage and
\* completed_at as they were; a completed record has been started and has
\* progress_percentage = 100.
C27_RecordTransitions ==
    pc = "record" =>
        /\ last.op = "start_learning" =>
              IF last.before.status = "not_started"
              THEN last.err = "none" /\ record.status = "in_progress"
              ELSE last.err = "BusinessRuleViolation" /\ record = last.before
        /\ last.op = "complete_learning" =>
              IF last.before.status \in {"in_progress", "paused"}
              THEN last.err = "none" /\ record.status = "completed"
              ELSE last.err = "BusinessRuleViolation" /\ record = last.before
        /\ record.status = "completed" =>
              /\ record.started_at = "set"
              /\ record.completed_at = "set"
              /\ record.progress_percentage = 100

C27_Witness ==
    /\ pc = "record"
    /\ last.op = "complete_learning"
    /\ last.err = "BusinessRuleViolation"
    /\ last.before.status = "abandoned"
    /\ last.before.started_at = "set"
    /\ record.progress_percentage = 50

-----------------------------------------------------------------------------
(* Claims about the regrouping after Kahn's pass *)

\* Kahn's output for the path the last sort started from
KahnOutputs ==
    LET P == IF last.recovered THEN ResolveCycles(last.before) ELSE last.before
    IN {KahnOrder(P, repo, h) : h \in HashOrders}

TypeOf(n) == repo[n].skill.type

FirstOfType(k, t) == CHOOSE i \in 1..Len(k) : TypeOf(k[i]) = t /\ \A j \in 1..(i - 1) : TypeOf(k[j]) # t

\* Inside a group: ascending complexity, ties in the order of k
GroupsSorted(out, k) ==
    \A i, j \in 1..Len(out) :
        (i < j /\ TypeOf(out[i]) = TypeOf(out[j])) =>
            /\ repo[out[i]].complexity <= repo[out[j]].complexity
            /\ repo[out[i]].complexity = repo[out[j]].complexity
                  => Before(k, out[i], out[j])

SortSucceeded == pc = "path" /\ last.op = "sort" /\ last.err = "none"

-----------------------------------------------------------------------------
(* C29: prerequisite_nodes and dependencies agree *)

\* prerequisite_nodes and dependencies of a path say the same: s is a
\* prerequisite of t exactly when a blocking relation s -> t is held.
PrerequisitesAgree(P) ==
    \A s, t \in Range(P.nodes) :
        s \in P.prereq[t] <=>
            \E d \in P.deps : d.source = s /\ d.target = t /\ IsBlocking(d)

\* C29: after any sequence of add_dependency calls, repeated calls on one
\* pair with another type or strength included, and of sorter recovery
\* passes, node s is in the prerequisite_nodes of node t exactly when the
\* dependencies hold a blocking relation from s to t.
C29_PrerequisitesAgreeWithDependencies ==
    pc = "path" => PrerequisitesAgree(path)



-----------------------------------------------------------------------------
(* C30: a learner can always go on *)

AllCompleted(P) == \A n \in Range(P.nodes) : P.status[n] = "completed"

NoneInProgress(P) == \A n \in Range(P.nodes) : P.status[n] # "in_progress"

\* C30: in a path whose prerequisite graph is acyclic, as long as some node
\* is not completed and no node is in progress, get_next_available_nodes
\* returns a node, so the learner who starts a returned node and completes
\* it is never left without a next node before every node is completed.
C30_LearnerNeverStuck ==
    (pc = "learn" /\ Acyclic(PrereqEdges(path))
        /\ ~AllCompleted(path) /\ NoneInProgress(path))
    => GetNextAvailableNodes(path, repo) # <<>>

=============================================================================
